---- MODULE Spec2Model ----
(***************************************************************************)
(* Model of trytond-purchase_edi (purchase.py): the EDI order formatter    *)
(* Purchase._make_edi_order_content, the address selection                 *)
(* Purchase._get_party_address, the file writer                            *)
(* Purchase._create_edi_order_file and the Purchase.confirm hook.          *)
(*                                                                         *)
(* Representation.  A Python string is a sequence of one-character         *)
(* strings (a Text); "\n" and "\r" are the characters LF and CR.  A        *)
(* segment u'TAG|{0}|{1}'.format(a, b) is the record                       *)
(* [tag |-> "TAG", fields |-> <<a, b>>]; a field left empty by the format  *)
(* string ("||") is the empty Text at its position.  The joined content    *)
(* '\r\n'.join(lines) is the sequence of its segments.  A float quantity   *)
(* is a whole number of tenths, a Decimal is [coef, exp] = coef * 10^exp.  *)
(* None is the record None.                                                *)
(***************************************************************************)
EXTENDS Integers, Sequences, FiniteSets, TLC

VARIABLES
    purchases,   \* id -> purchase.purchase record (with its related records)
    path_edi,    \* purchase.configuration(1).path_edi, a Text ("" = unset)
    dirs,        \* the directories that exist (normalised absolute paths)
    files,       \* file name -> content, the regular files that exist
    lastCall,    \* what the last Purchase.confirm call did
    created,     \* ids whose _create_edi_order_file has completed (history)
    rorder,      \* formatter run: the purchase handed to the formatter
    rout         \* formatter run: its outcome

vars == <<purchases, path_edi, dirs, files, lastCall, created, rorder, rout>>

\* ------------------------------------------------------------------ bounds
MaxLines == 2
MaxAddresses == 2
NumPurchases == 2
MaxBatch == 2

\* ------------------------------------------------------- program constants
NameLimit == 70
ZipLimit == 10
NadivZipLimit == 70
ContactLimit == 35
CodeLimit == 35
CommentLimit == 280
NoteLimit == 350
AmountLimit == 18
DiscountLimit == 8

\* -------------------------------------------------------------------- text
LF == "\n"
CR == "\r"
None == [none |-> TRUE]

Rep(c, n) == [i \in 1..n |-> c]

\* s[:n]
Slice(s, n) == SubSeq(s, 1, IF Len(s) < n THEN Len(s) ELSE n)

\* s.replace('\n', '')
StripNewline(s) == SelectSeq(s, LAMBDA c : c # LF)

Digits == <<"0", "1", "2", "3", "4", "5", "6", "7", "8", "9">>

RECURSIVE NatStr(_)
NatStr(n) ==
    IF n < 10 THEN <<Digits[n + 1]>>
    ELSE NatStr(n \div 10) \o <<Digits[(n % 10) + 1]>>

\* str(n) for an int
IntStr(n) == IF n < 0 THEN <<"-">> \o NatStr(-n) ELSE NatStr(n)

\* zero-padding on the left to width w
ZeroPad(s, w) == IF Len(s) < w THEN Rep("0", w - Len(s)) \o s ELSE s

RECURSIVE Pow10(_)
Pow10(k) == IF k = 0 THEN 1 ELSE 10 * Pow10(k - 1)

Abs(n) == IF n < 0 THEN -n ELSE n

\* date.strftime(DATE_FORMAT) with DATE_FORMAT = '%Y%m%d'
Strftime(date) ==
    ZeroPad(NatStr(date.year), 4) \o ZeroPad(NatStr(date.month), 2)
        \o ZeroPad(NatStr(date.day), 2)

\* ----------------------------------------------------------------- Decimal
Dec(c, e) == [coef |-> c, exp |-> e]

\* format(d, '.6f') for a Decimal with at most six decimals
FormatF6(d) ==
    LET scaled == Abs(d.coef) * Pow10(6 + d.exp)
        sign   == IF d.coef < 0 THEN <<"-">> ELSE <<>>
    IN  sign \o NatStr(scaled \div Pow10(6)) \o <<".">>
             \o ZeroPad(NatStr(scaled % Pow10(6)), 6)

\* str(d) for a Decimal (decimal.Decimal.__str__)
DecStr(d) ==
    LET digits     == NatStr(Abs(d.coef))
        sign       == IF d.coef < 0 THEN <<"-">> ELSE <<>>
        leftdigits == d.exp + Len(digits)
        dotplace   == IF d.exp <= 0 /\ leftdigits > -6 THEN leftdigits ELSE 1
        intpart    == IF dotplace <= 0 THEN <<"0">>
                      ELSE IF dotplace >= Len(digits)
                           THEN digits \o Rep("0", dotplace - Len(digits))
                           ELSE SubSeq(digits, 1, dotplace)
        fracpart   == IF dotplace <= 0
                      THEN <<".">> \o Rep("0", -dotplace) \o digits
                      ELSE IF dotplace >= Len(digits) THEN <<>>
                           ELSE <<".">> \o SubSeq(digits, dotplace + 1, Len(digits))
        expo       == IF leftdigits = dotplace THEN <<>>
                      ELSE <<"E">>
                           \o (IF leftdigits - dotplace < 0 THEN <<"-">> ELSE <<"+">>)
                           \o NatStr(Abs(leftdigits - dotplace))
    IN  sign \o intpart \o fracpart \o expo

\* d * n for an int n
DecTimes(d, n) == Dec(d.coef * n, d.exp)

\* a - b
DecMinus(a, b) ==
    LET e == IF a.exp < b.exp THEN a.exp ELSE b.exp
    IN  Dec(a.coef * Pow10(a.exp - e) - b.coef * Pow10(b.exp - e), e)

\* d.normalize(): trailing zeros of the coefficient move into the exponent
RECURSIVE Normalize(_)
Normalize(d) ==
    IF d.coef = 0 THEN Dec(0, 0)
    ELSE IF d.coef % 10 = 0 THEN Normalize(Dec(d.coef \div 10, d.exp + 1))
    ELSE d

\* --------------------------------------------------------------- unidecode
\* the non-ASCII characters of the model's data, named by code point
EAcute == "U+00E9"
NTilde == "U+00F1"
SharpS == "U+00DF"

\* unidecode of one character: its closest ASCII rendering
UnidecodeChar(c) ==
    CASE c = EAcute -> <<"e">>
      [] c = NTilde -> <<"n">>
      [] c = SharpS -> <<"s", "s">>
      [] OTHER      -> <<c>>

\* unidecode(s): the renderings of the characters of s, in order
RECURSIVE Unidecode(_)
Unidecode(s) ==
    IF \A i \in DOMAIN s : UnidecodeChar(s[i]) = <<s[i]>> THEN s
    ELSE IF Len(s) = 1 THEN UnidecodeChar(s[1])
    ELSE Unidecode(SubSeq(s, 1, Len(s) \div 2))
         \o Unidecode(SubSeq(s, (Len(s) \div 2) + 1, Len(s)))

\* ---------------------------------------------------------------- segments
Format(tag, fields) == [tag |-> tag, fields |-> fields]

\* segment.replace('\n', '')
StripSeg(seg) ==
    [tag |-> seg.tag,
     fields |-> [i \in DOMAIN seg.fields |-> StripNewline(seg.fields[i])]]

UnidecodeSeg(seg) ==
    [tag |-> seg.tag,
     fields |-> [i \in DOMAIN seg.fields |-> Unidecode(seg.fields[i])]]

\* unidecode('\r\n'.join(lines))
JoinUnidecode(lines) == [i \in DOMAIN lines |-> UnidecodeSeg(lines[i])]

\* UOMS.get(symbol, '')
UOMS(symbol) ==
    CASE symbol = "kg" -> <<"K", "G", "M">>
      [] symbol = "u"  -> <<"P", "C", "E">>
      [] symbol = "l"  -> <<"L", "T", "R">>
      [] OTHER         -> <<>>

\* CM_TYPES.get(type, '')
CM_TYPES(type) ==
    CASE type = "phone"  -> <<"T", "E">>
      [] type = "mobile" -> <<"T", "E">>
      [] type = "fax"    -> <<"F", "X">>
      [] type = "email"  -> <<"E", "M">>
      [] OTHER           -> <<>>

\* ------------------------------------------------------------------ errors
NoError == [exc |-> "none", key |-> "", arg |-> <<>>]
\* raise_user_error(key, arg): arg is the text put into the message's "%s"
UserError(key, arg) == [exc |-> "UserError", key |-> key, arg |-> arg]
IndexError == [exc |-> "IndexError", key |-> "", arg |-> <<>>]
TypeError == [exc |-> "TypeError", key |-> "", arg |-> <<>>]

\* ------------------------------------------------------ _get_party_address
\* hasattr(address, address_type) and getattr(address, address_type)
HasRole(address, address_type) ==
    IF address_type = "invoice"
    THEN address.invoice.has /\ address.invoice.val
    ELSE address.delivery.has /\ address.delivery.val

MinOf(S) == CHOOSE i \in S : \A j \in S : i <= j
MaxOf(S) == CHOOSE i \in S : \A j \in S : j <= i

\* variant: the last address with the role instead of the first
GetPartyAddressLastMatch(party, address_type) ==
    LET hits == {i \in DOMAIN party.addresses :
                    HasRole(party.addresses[i], address_type)}
    IN  IF hits # {} THEN [error |-> NoError, address |-> party.addresses[MaxOf(hits)]]
        ELSE IF party.addresses = <<>> THEN [error |-> IndexError, address |-> None]
        ELSE [error |-> NoError, address |-> party.addresses[1]]

\* Purchase._get_party_address: the first address with the role, else
\* party.addresses[0], which raises IndexError on an empty list
GetPartyAddress(party, address_type) ==
    LET hits == {i \in DOMAIN party.addresses :
                    HasRole(party.addresses[i], address_type)}
    IN  IF hits # {} THEN [error |-> NoError, address |-> party.addresses[MinOf(hits)]]
        ELSE IF party.addresses = <<>> THEN [error |-> IndexError, address |-> None]
        ELSE [error |-> NoError, address |-> party.addresses[1]]

\* ------------------------------------------------- _make_edi_order_content
\* the loop over (customer, supplier) raising unfilled_edi_operational_point
CheckOperationalPoints(customer, supplier) ==
    IF customer.edi_operational_point = <<>>
    THEN UserError("unfilled_edi_operational_point", customer.rec_name)
    ELSE IF supplier.edi_operational_point = <<>>
    THEN UserError("unfilled_edi_operational_point", supplier.rec_name)
    ELSE NoError

\* self.warehouse.address if self.warehouse and self.warehouse.address
\* else self._get_party_address(customer, 'delivery')
DeliveryAddress(self, customer) ==
    IF self.warehouse # None /\ self.warehouse.address # None
    THEN [error |-> NoError, address |-> self.warehouse.address]
    ELSE GetPartyAddress(customer, "delivery")

\* header, ORD, DTM and the optional ALI and FTX
OrderSegments(self) ==
    <<Format("ORDERS_D_96A_UN_EAN008", <<>>),
      StripSeg(Format("ORD", <<self.number, self.edi_order_type,
                               self.edi_message_function>>)),
      StripSeg(Format("DTM", <<Strftime(self.purchase_date)>>))>>
    \o (IF self.edi_special_condition # <<>>
        THEN <<StripSeg(Format("ALI", <<self.edi_special_condition>>))>>
        ELSE <<>>)
    \o (IF self.comment # <<>>
        THEN <<StripSeg(Format("FTX", <<<<"A", "A", "I">>, <<>>,
                                        Slice(self.comment, CommentLimit)>>))>>
        ELSE <<>>)

NadmsSegment(customer, invoice_address) ==
    StripSeg(Format("NADMS", <<customer.edi_operational_point,
        Slice(customer.name, NameLimit),
        Slice(invoice_address.street, NameLimit),
        Slice(invoice_address.city, NameLimit),
        Slice(invoice_address.zip, ZipLimit),
        Slice(customer.vat_code, ZipLimit)>>))

NadbySegment(customer, invoice_address) ==
    StripSeg(Format("NADBY", <<customer.edi_operational_point,
        <<>>, <<>>, <<>>,
        Slice(customer.name, NameLimit),
        Slice(invoice_address.street, NameLimit),
        Slice(invoice_address.city, NameLimit),
        Slice(invoice_address.zip, ZipLimit),
        Slice(customer.vat_code, ZipLimit)>>))

\* the code cuts the postal code at 70 here (zip[:70]  # limit 10)
NadivSegment(customer, invoice_address) ==
    StripSeg(Format("NADIV", <<customer.edi_operational_point,
        <<>>,
        Slice(customer.name, NameLimit),
        Slice(invoice_address.street, NameLimit),
        Slice(invoice_address.city, NameLimit),
        Slice(invoice_address.zip, NadivZipLimit),
        Slice(customer.vat_code, ZipLimit)>>))

\* one COMDP per contact mechanism of a mapped type
RECURSIVE ComdpSegments(_)
ComdpSegments(party_cm) ==
    IF party_cm = <<>> THEN <<>>
    ELSE (IF CM_TYPES(Head(party_cm).type) # <<>>
          THEN <<StripSeg(Format("COMDP", <<CM_TYPES(Head(party_cm).type),
                          Slice(Head(party_cm).value, ContactLimit)>>))>>
          ELSE <<>>)
         \o ComdpSegments(Tail(party_cm))

\* variant: CTABY and CTADP emitted without looking at the contact names
PartySegmentsNoContactTest(self, customer, supplier, invoice_address, delivery_address) ==
    <<NadmsSegment(customer, invoice_address),
      StripSeg(Format("NADMR", <<self.supplier_edi_operational_point.code>>)),
      StripSeg(Format("NADSU", <<self.supplier_edi_operational_point.code,
          Slice(supplier.name, NameLimit),
          Slice(self.invoice_address.street, NameLimit),
          Slice(self.invoice_address.city, NameLimit),
          Slice(self.invoice_address.zip, ZipLimit),
          <<>>,
          Slice(supplier.vat_code, ZipLimit)>>)),
      NadbySegment(customer, invoice_address),
      StripSeg(Format("CTABY", <<<<"O", "C">>,
                                 Slice(invoice_address.name, ContactLimit)>>)),
      StripSeg(Format("NADDP", <<delivery_address.edi_ean,
          <<>>,
          Slice(delivery_address.party.name, NameLimit),
          Slice(delivery_address.street, NameLimit),
          Slice(delivery_address.city, NameLimit),
          Slice(delivery_address.zip, ZipLimit)>>)),
      StripSeg(Format("CTADP", <<<<"O", "C">>,
                                 Slice(delivery_address.name, ContactLimit)>>))>>
    \o ComdpSegments(delivery_address.party.contact_mechanisms)
    \o <<NadivSegment(customer, invoice_address),
         StripSeg(Format("CUX", <<self.currency.code>>))>>

\* NADMS, NADMR, NADSU, NADBY, [CTABY], NADDP, [CTADP], COMDP*, NADIV, CUX
PartySegments(self, customer, supplier, invoice_address, delivery_address) ==
    <<NadmsSegment(customer, invoice_address),
      StripSeg(Format("NADMR", <<self.supplier_edi_operational_point.code>>)),
      StripSeg(Format("NADSU", <<self.supplier_edi_operational_point.code,
          Slice(supplier.name, NameLimit),
          Slice(self.invoice_address.street, NameLimit),
          Slice(self.invoice_address.city, NameLimit),
          Slice(self.invoice_address.zip, ZipLimit),
          <<>>,
          Slice(supplier.vat_code, ZipLimit)>>)),
      NadbySegment(customer, invoice_address)>>
    \o (IF invoice_address.name # <<>>
        THEN <<StripSeg(Format("CTABY", <<<<"O", "C">>,
                               Slice(invoice_address.name, ContactLimit)>>))>>
        ELSE <<>>)
    \o <<StripSeg(Format("NADDP", <<delivery_address.edi_ean,
          <<>>,
          Slice(delivery_address.party.name, NameLimit),
          Slice(delivery_address.street, NameLimit),
          Slice(delivery_address.city, NameLimit),
          Slice(delivery_address.zip, ZipLimit)>>))>>
    \o (IF delivery_address.name # <<>>
        THEN <<StripSeg(Format("CTADP", <<<<"O", "C">>,
                               Slice(delivery_address.name, ContactLimit)>>))>>
        ELSE <<>>)
    \o ComdpSegments(delivery_address.party.contact_mechanisms)
    \o <<NadivSegment(customer, invoice_address),
         StripSeg(Format("CUX", <<self.currency.code>>))>>

\* int(x) for a float x held in tenths: truncation toward zero
PyInt(tenths) ==
    IF tenths >= 0 THEN tenths \div 10 ELSE -((-tenths) \div 10)

\* str(int(line.quantity) or 0)
QuantityField(quantity) ==
    LET n == PyInt(quantity.tenths)
    IN  IntStr(IF n # 0 THEN n ELSE 0)

\* the segments of one order line; int(None) raises TypeError at QTYLIN
LineSegments(self, line, index) ==
    LET product == line.product
        unit    == UOMS(line.unit.symbol)
        before  ==
            <<StripSeg(Format("LIN", <<product.code_ean13, <<"E", "N">>,
                                       IntStr(index + 1)>>)),
              StripSeg(Format("PIALIN", <<<<"I", "N">>,
                                          Slice(product.code, CodeLimit)>>)),
              StripSeg(Format("PIALIN", <<<<"C", "N", "A">>,
                                          Slice(product.code, CodeLimit)>>)),
              StripSeg(Format("IMDLIN", <<<<"F">>, <<>>, <<>>,
                                          Slice(product.name, NameLimit)>>))>>
    IN  IF line.quantity = None
        THEN [error |-> TypeError, segs |-> before]
        ELSE [error |-> NoError, segs |->
            before
            \o <<StripSeg(Format("QTYLIN", <<<<"2", "1">>,
                                  QuantityField(line.quantity), unit>>))>>
            \o (IF line.delivery_date # None
                THEN <<StripSeg(Format("DTMLIN", <<<<>>, <<>>, <<>>,
                            Strftime(line.delivery_date), <<>>, <<>>>>))>>
                ELSE <<>>)
            \o <<Format("MOALIN", <<Slice(FormatF6(line.amount), AmountLimit)>>)>>
            \o (IF line.note # <<>>
                THEN <<StripSeg(Format("FTXLIN", <<Slice(line.note, NoteLimit),
                                                   <<"A", "A", "I">>>>))>>
                ELSE <<>>)
            \o <<StripSeg(Format("PRILIN", <<<<"A", "A", "A">>,
                        Slice(FormatF6(line.unit_price), AmountLimit)>>)),
                 StripSeg(Format("PRILIN", <<<<"A", "A", "B">>,
                        Slice(FormatF6(line.gross_unit_price), AmountLimit)>>))>>
            \o (IF line.taxes # <<>>
                THEN <<Format("TAXLIN", <<<<"V", "A", "T">>,
                            DecStr(DecTimes(line.taxes[1].rate, 100))>>)>>
                ELSE <<>>)
            \o (IF line.discount # None /\ line.discount.coef # 0
                THEN <<StripSeg(Format("ALCLIN", <<<<"A">>, <<"1">>, <<"T", "D">>,
                            <<>>,
                            Slice(DecStr(DecTimes(line.discount, 100)),
                                  DiscountLimit),
                            Slice(DecStr(Normalize(DecMinus(
                                      line.gross_unit_price, line.unit_price))),
                                  AmountLimit)>>))>>
                ELSE <<>>)]

\* for index, line in enumerate(self.lines): the segments appended until the
\* loop ends or a line raises
RECURSIVE LinesLoop(_, _, _)
RECURSIVE LinesLoopAppend(_, _, _, _)
LinesLoopAppend(self, index, lines, block) ==
    IF block.error # NoError
    THEN [error |-> block.error, lines |-> lines \o block.segs]
    ELSE LinesLoop(self, index + 1, lines \o block.segs)

LinesLoop(self, index, lines) ==
    IF index >= Len(self.lines) THEN [error |-> NoError, lines |-> lines]
    ELSE LinesLoopAppend(self, index, lines,
                         LineSegments(self, self.lines[index + 1], index))

\* u'MOARES|{}\r\n'.format(str(self.total_amount)[:18])
MoaresSegment(self) ==
    Format("MOARES", <<Slice(DecStr(self.total_amount), AmountLimit) \o <<CR, LF>>>>)

\* an outcome of _make_edi_order_content: the exception raised (NoError when
\* it returns), the list `lines` at that moment and the returned content
Raised(error, lines) == [error |-> error, lines |-> lines, content |-> <<>>]

\* return unidecode('\r\n'.join(lines))
Returned(lines) ==
    [error |-> NoError, lines |-> lines, content |-> JoinUnidecode(lines)]

\* lines 292-295, after the loop over the order's lines
AfterLines(self, loop) ==
    IF loop.error # NoError THEN Raised(loop.error, loop.lines)
    ELSE Returned(loop.lines \o <<MoaresSegment(self)>>)

\* lines 151-295: the segments, once the checks have passed
Segments(self, customer, supplier, invoice_address, delivery_address, lines) ==
    AfterLines(self,
        LinesLoop(self, 0,
            lines \o OrderSegments(self)
                  \o PartySegments(self, customer, supplier, invoice_address,
                                   delivery_address)))

\* lines 147-149: the EDI EAN of the delivery address
CheckDeliveryEan(self, customer, supplier, invoice_address, delivery, lines) ==
    IF delivery.error # NoError THEN Raised(delivery.error, lines)
    ELSE IF delivery.address.edi_ean = <<>>
    THEN Raised(UserError("unfilled_wh_edi_ean", IntStr(delivery.address.id)),
                lines)
    ELSE Segments(self, customer, supplier, invoice_address, delivery.address,
                  lines)

\* lines 143-146: the invoice address, then the delivery address
ResolveAddresses(self, customer, supplier, invoice, lines) ==
    IF invoice.error # NoError THEN Raised(invoice.error, lines)
    ELSE CheckDeliveryEan(self, customer, supplier, invoice.address,
                          DeliveryAddress(self, customer), lines)

\* lines 139-295, with `lines` as it is when the checks start
ChecksThenSegments(self, customer, supplier, lines, opError) ==
    IF opError # NoError THEN Raised(opError, lines)
    ELSE ResolveAddresses(self, customer, supplier,
                          GetPartyAddress(customer, "invoice"), lines)

\* variant: the header is appended before the data checks
MakeEdiOrderContentHeaderFirst(self) ==
    ChecksThenSegments(self, self.company.party, self.party,
        <<Format("ORDERS_D_96A_UN_EAN008", <<>>)>>,
        CheckOperationalPoints(self.company.party, self.party))

\* Purchase._make_edi_order_content: lines = [], the checks, the segments
MakeEdiOrderContent(self) ==
    ChecksThenSegments(self, self.company.party, self.party, <<>>,
        CheckOperationalPoints(self.company.party, self.party))

\* -------------------------------------------------------------------- data
\* The records the formatter reads.  Every set below is finite; the lists
\* are bounded by MaxAddresses and MaxLines.

\* the sequences over S of length at most n
SeqsUpTo(S, n) == UNION {[1..k -> S] : k \in 0..n}

\* the sequences over S without repetition, of length at most n
DistinctSeqs(S, n) ==
    {q \in SeqsUpTo(S, n) : \A i, j \in DOMAIN q : i # j => q[i] # q[j]}

\* the company's name: short, or longer than the 70 characters kept of it
CustomerName(rich) ==
    IF rich THEN <<"C", "a", "f", EAcute, LF>> \o Rep("x", 70)
    ELSE <<"C", "a", "f", EAcute>>
SupplierName == <<"P", "e", NTilde, "a">>
CustomerOp == Rep("8", 13)
SupplierOp == Rep("7", 13)

Phone == [type |-> "phone", value |-> Rep("5", 40)]
Skype == [type |-> "skype", value |-> <<"a", "c", "m", "e">>]
Email == [type |-> "email", value |-> <<"a", "@", "b">>]

\* a party as an address refers back to it (address.party)
PartyRef(name, cms) == [name |-> name, contact_mechanisms |-> cms]

Flag(has, val) == [has |-> has, val |-> val]

\* the company's addresses: 1 is a delivery address without the invoice
\* attribute and without contact name, 2 an invoice address with a long
\* postal code and no EDI EAN, 3 an invoice and delivery address
CustomerAddress(id, cms, rich) ==
    [id |-> id,
     party |-> PartyRef(CustomerName(rich), cms),
     name |-> IF id = 1 THEN <<>> ELSE Rep("k", IF rich THEN 34 + id ELSE id),
     street |-> <<"S", "t", Digits[id + 1]>>,
     city |-> IF id = 2 /\ rich THEN Rep("y", 71) ELSE <<"V", "i", "c">>,
     zip |-> IF id = 2 THEN Rep("9", 12) ELSE Rep("0", 5),
     edi_ean |-> IF id = 2 THEN <<>> ELSE Rep(Digits[id + 1], 13),
     invoice |-> IF id = 1 THEN Flag(FALSE, FALSE) ELSE Flag(TRUE, TRUE),
     delivery |-> Flag(TRUE, id # 2)]

AddressIds == 1..3

CompanyParty(op, ids, cms, rich) ==
    [rec_name |-> <<"A", "c", "m", "e">>,
     name |-> CustomerName(rich),
     edi_operational_point |-> op,
     vat_code |-> <<"E", "S">> \o Rep("1", IF rich THEN 10 ELSE 8),
     addresses |-> [i \in DOMAIN ids |-> CustomerAddress(ids[i], cms, rich)],
     contact_mechanisms |-> cms]

SupplierParty(op) ==
    [rec_name |-> <<"P", "e", "n", "a">>,
     name |-> SupplierName,
     edi_operational_point |-> op,
     vat_code |-> <<"F", "R", "1">>,
     addresses |-> <<>>,
     contact_mechanisms |-> <<>>]

\* the address of a warehouse, owned by a party of its own
WarehouseAddress(ean) ==
    [id |-> 9,
     party |-> PartyRef(<<"D", "e", "p", "o", "t">>, <<Skype>>),
     name |-> <<>>,
     street |-> <<"D", "o", "c", "k">>,
     city |-> <<"R", "e", "u", "s">>,
     zip |-> Rep("4", 5),
     edi_ean |-> ean,
     invoice |-> Flag(FALSE, FALSE),
     delivery |-> Flag(FALSE, FALSE)]

Warehouses ==
    {None, [address |-> None],
     [address |-> WarehouseAddress(Rep("6", 13))],
     [address |-> WarehouseAddress(<<>>)]}

Product ==
    [code_ean13 |-> Rep("3", 13), code |-> Rep("p", 36),
     name |-> <<"T", "e", LF, "a">>]

Quantity(tenths) == [tenths |-> tenths]

LineMinimal ==
    [product |-> Product, quantity |-> Quantity(27), unit |-> [symbol |-> "u"],
     delivery_date |-> None, amount |-> Dec(2700, -2), note |-> <<>>,
     unit_price |-> Dec(10000, -4), gross_unit_price |-> Dec(10000, -4),
     taxes |-> <<>>, discount |-> None]

LineNoQuantity == [LineMinimal EXCEPT !.quantity = None]

LineZero ==
    [LineMinimal EXCEPT !.quantity = Quantity(0), !.unit = [symbol |-> "box"],
                        !.amount = Dec(0, -2), !.discount = Dec(0, 0)]

LineFull ==
    [LineMinimal EXCEPT !.quantity = Quantity(-27), !.unit = [symbol |-> "kg"],
        !.delivery_date = [year |-> 2019, month |-> 3, day |-> 7],
        !.amount = Dec(-2430, -2), !.note = <<"n", LF, "b">>,
        !.unit_price = Dec(9000, -4), !.taxes = <<[rate |-> Dec(21, -2)]>>,
        !.discount = Dec(10, -2)]

Lines == {LineMinimal, LineNoQuantity, LineZero, LineFull}

\* a purchase; `rich` fills the optional header fields and the company's
\* contact mechanisms and makes the company's texts longer than their limits
PurchaseRecord(id, use_edi, customerOp, supplierOp, ids, warehouse, lines, rich) ==
    [id |-> id,
     use_edi |-> use_edi,
     number |-> <<"P", "O">> \o IntStr(id),
     edi_order_type |-> <<"2", "2", "0">>,
     edi_message_function |-> <<"9">>,
     edi_special_condition |-> IF rich THEN <<"8", "1", "E">> ELSE <<>>,
     comment |-> IF rich THEN <<SharpS, LF>> \o Rep("c", 280) ELSE <<>>,
     purchase_date |-> [year |-> 2019, month |-> 2, day |-> 28],
     company |-> [party |-> CompanyParty(customerOp, ids,
                      IF rich THEN <<Phone, Skype, Email>> ELSE <<>>, rich)],
     party |-> SupplierParty(supplierOp),
     supplier_edi_operational_point |-> [code |-> SupplierOp],
     invoice_address |-> [street |-> <<"R", "u", "e">>, city |-> <<"P", "a", "u">>,
                          zip |-> Rep("6", 11)],
     warehouse |-> warehouse,
     currency |-> [code |-> <<"E", "U", "R">>],
     lines |-> lines,
     total_amount |-> Dec(12345, -2)]

\* the purchases handed to the formatter
RenderInputs ==
    {PurchaseRecord(1, TRUE, cop, sop, ids, wh, ls, rich) :
        cop \in {<<>>, CustomerOp}, sop \in {<<>>, SupplierOp},
        ids \in DistinctSeqs(AddressIds, MaxAddresses), wh \in Warehouses,
        ls \in SeqsUpTo(Lines, MaxLines), rich \in BOOLEAN}

\* ------------------------------------------------------------- file system
\* DEFAULT_FILES_LOCATION = '/tmp/'
DEFAULT_FILES_LOCATION == <<"/", "t", "m", "p", "/">>

\* the working directory of the server process
Cwd == <<"/", "s", "r", "v">>

\* path.split('/')
RECURSIVE SplitPath(_, _, _)
SplitPath(s, cur, acc) ==
    IF s = <<>> THEN Append(acc, cur)
    ELSE IF Head(s) = "/" THEN SplitPath(Tail(s), <<>>, Append(acc, cur))
    ELSE SplitPath(Tail(s), Append(cur, Head(s)), acc)

\* posixpath.normpath's loop over the components: '' and '.' are dropped,
\* '..' removes the component before it (an absolute path stays at its root)
RECURSIVE NormComps(_, _)
NormComps(comps, acc) ==
    IF comps = <<>> THEN acc
    ELSE LET c == Head(comps)
         IN  IF c = <<>> \/ c = <<".">> THEN NormComps(Tail(comps), acc)
             ELSE IF c = <<".", ".">>
             THEN NormComps(Tail(comps),
                            IF acc = <<>> THEN acc ELSE SubSeq(acc, 1, Len(acc) - 1))
             ELSE NormComps(Tail(comps), Append(acc, c))

\* '/'.join(comps)
RECURSIVE JoinPath(_)
JoinPath(comps) ==
    IF comps = <<>> THEN <<>>
    ELSE IF Len(comps) = 1 THEN Head(comps)
    ELSE Head(comps) \o <<"/">> \o JoinPath(Tail(comps))

\* os.path.abspath(path) = normpath(join(os.getcwd(), path)); two leading
\* slashes (and only two) are kept by normpath
Abspath(path) ==
    LET full  == IF path # <<>> /\ Head(path) = "/" THEN path
                 ELSE Cwd \o <<"/">> \o path
        twice == Len(full) >= 2 /\ full[2] = "/" /\ ~(Len(full) >= 3 /\ full[3] = "/")
    IN  (IF twice THEN <<"/", "/">> ELSE <<"/">>)
        \o JoinPath(NormComps(SplitPath(full, <<>>, <<>>), <<>>))

\* '%s/order_%s.PLA' % (path_edi, self.id)
FileName(path, id) ==
    path \o <<"/", "o", "r", "d", "e", "r", "_">> \o IntStr(id)
         \o <<".", "P", "L", "A">>

\* open(filename, 'w') and f.write(...): the file is created or replaced
WriteFile(fs_files, filename, content) ==
    [n \in DOMAIN fs_files \cup {filename} |->
        IF n = filename THEN content ELSE fs_files[n]]

\* the formatter was not reached
NotCalled == [error |-> [exc |-> "not called", key |-> "", arg |-> <<>>],
              lines |-> <<>>, content |-> <<>>]

\* os.path.abspath(purchase_config.path_edi or DEFAULT_FILES_LOCATION)
ResolvedPath(config_path) ==
    Abspath(IF config_path # <<>> THEN config_path ELSE DEFAULT_FILES_LOCATION)

\* lines 306-308, or the formatter's exception passed on
WriteContent(self, path, fs, render) ==
    IF render.error # NoError
    THEN [error |-> render.error, fs |-> fs, render |-> render]
    ELSE [error |-> NoError,
          fs |-> [fs EXCEPT !.files =
                     WriteFile(fs.files, FileName(path, self.id), render.content)],
          render |-> render]

\* lines 303-308, with the resolved path
CreateIn(self, path, fs) ==
    IF path \notin fs.dirs
    THEN [error |-> UserError("path_no_exists", path), fs |-> fs,
          render |-> NotCalled]
    ELSE WriteContent(self, path, fs, MakeEdiOrderContent(self))

\* variant of CreateIn: no directory test, the directory is created
CreateInMakeDirs(self, path, fs) ==
    WriteContent(self, path, [fs EXCEPT !.dirs = fs.dirs \cup {path}],
                 MakeEdiOrderContent(self))

\* variant of CreateIn: the formatter runs before the directory test
CreateInRenderFirst(self, path, fs, render) ==
    IF render.error # NoError
    THEN [error |-> render.error, fs |-> fs, render |-> render]
    ELSE IF path \notin fs.dirs
    THEN [error |-> UserError("path_no_exists", path), fs |-> fs,
          render |-> render]
    ELSE WriteContent(self, path, fs, render)

\* variant: no directory test, the directory is created when missing
CreateEdiOrderFileMakeDirs(self, config_path, fs) ==
    CreateInMakeDirs(self, ResolvedPath(config_path), fs)

\* variant: the formatter runs before the directory test
CreateEdiOrderFileRenderFirst(self, config_path, fs) ==
    CreateInRenderFirst(self, ResolvedPath(config_path), fs,
                        MakeEdiOrderContent(self))

\* Purchase._create_edi_order_file: the directory test, then the formatter,
\* then the write.  The content is ASCII after unidecode, so encode('utf-8')
\* leaves it as it is.
CreateEdiOrderFile(self, config_path, fs) ==
    CreateIn(self, ResolvedPath(config_path), fs)

\* ----------------------------------------------------------------- confirm
\* super(Purchase, cls).confirm(purchases): the purchases the hosting
\* workflow has moved to the confirmed state
SuperConfirm(ids) == {ids[i] : i \in DOMAIN ids}

\* one record per _create_edi_order_file call of a confirm: the purchase,
\* the purchases already confirmed, the outcome and what the formatter did
Step(id, confirmed, out) ==
    [id |-> id, confirmed |-> confirmed, error |-> out.error,
     render |-> [error |-> out.render.error, lines |-> out.render.lines]]

\* variant: a failed file creation does not end the loop
RECURSIVE ConfirmLoopKeepGoing(_, _, _, _, _, _)
RECURSIVE ConfirmKeepGoingAfter(_, _, _, _, _, _)
ConfirmKeepGoingAfter(ids, recs, config_path, steps, confirmed, out) ==
    ConfirmLoopKeepGoing(Tail(ids), recs, config_path, out.fs,
        Append(steps, Step(Head(ids), confirmed, out)), confirmed)

ConfirmLoopKeepGoing(ids, recs, config_path, fs, steps, confirmed) ==
    IF ids = <<>> THEN [fs |-> fs, steps |-> steps, error |-> NoError]
    ELSE IF ~recs[Head(ids)].use_edi
    THEN ConfirmLoopKeepGoing(Tail(ids), recs, config_path, fs, steps, confirmed)
    ELSE ConfirmKeepGoingAfter(ids, recs, config_path, steps, confirmed,
             CreateEdiOrderFile(recs[Head(ids)], config_path, fs))

\* for purchase in purchases: if purchase.use_edi:
\*     purchase._create_edi_order_file()
\* an exception ends the loop and leaves confirm
RECURSIVE ConfirmLoop(_, _, _, _, _, _)
RECURSIVE ConfirmAfter(_, _, _, _, _, _)
ConfirmAfter(ids, recs, config_path, steps, confirmed, out) ==
    IF out.error # NoError
    THEN [fs |-> out.fs,
          steps |-> Append(steps, Step(Head(ids), confirmed, out)),
          error |-> out.error]
    ELSE ConfirmLoop(Tail(ids), recs, config_path, out.fs,
             Append(steps, Step(Head(ids), confirmed, out)), confirmed)

ConfirmLoop(ids, recs, config_path, fs, steps, confirmed) ==
    IF ids = <<>> THEN [fs |-> fs, steps |-> steps, error |-> NoError]
    ELSE IF ~recs[Head(ids)].use_edi
    THEN ConfirmLoop(Tail(ids), recs, config_path, fs, steps, confirmed)
    ELSE ConfirmAfter(ids, recs, config_path, steps, confirmed,
             CreateEdiOrderFile(recs[Head(ids)], config_path, fs))

\* variant: use_edi is not looked at
ConfirmLoopAll(ids, recs, config_path, fs, steps, confirmed) ==
    ConfirmLoop(ids, [i \in DOMAIN recs |-> [recs[i] EXCEPT !.use_edi = TRUE]],
                config_path, fs, steps, confirmed)

ConfirmEffectKeepGoing(ids, recs, config_path, fs) ==
    ConfirmLoopKeepGoing(ids, recs, config_path, fs, <<>>, SuperConfirm(ids))

ConfirmEffectAll(ids, recs, config_path, fs) ==
    ConfirmLoopAll(ids, recs, config_path, fs, <<>>, SuperConfirm(ids))

\* Purchase.confirm(purchases): super().confirm(purchases), then the loop
ConfirmEffect(ids, recs, config_path, fs) ==
    ConfirmLoop(ids, recs, config_path, fs, <<>>, SuperConfirm(ids))

\* ----------------------------------------------------------- specification
Range(q) == {q[i] : i \in DOMAIN q}

NoFiles == [n \in {} |-> <<>>]
NoCall == [purchases |-> <<>>, before |-> NoFiles, dirsBefore |-> {},
           steps |-> <<>>, error |-> NoError, called |-> FALSE]
NoPurchase == [id |-> 0]
NotRun == [call |-> "none"]

\* the company of the database: complete, without operational point, with
\* an address that has no EDI EAN, without any address
Companies ==
    {[op |-> CustomerOp, ids |-> <<3>>], [op |-> <<>>, ids |-> <<3>>],
     [op |-> CustomerOp, ids |-> <<2>>], [op |-> CustomerOp, ids |-> <<>>]}

\* the purchases of the database: without EDI, complete, supplier without
\* operational point, warehouse address without EDI EAN, warehouse address
\* with one
PurchaseKinds ==
    <<[use_edi |-> FALSE, op |-> SupplierOp, warehouse |-> None],
      [use_edi |-> TRUE, op |-> SupplierOp, warehouse |-> None],
      [use_edi |-> TRUE, op |-> <<>>, warehouse |-> None],
      [use_edi |-> TRUE, op |-> SupplierOp,
       warehouse |-> [address |-> WarehouseAddress(<<>>)]],
      [use_edi |-> TRUE, op |-> SupplierOp,
       warehouse |-> [address |-> WarehouseAddress(Rep("6", 13))]]>>

\* the kinds of purchases 1..NumPurchases.  Confirm takes the ids in any
\* order, so an assignment and its renumberings behave alike and one
\* assignment per multiset of kinds is kept
KindAssignments ==
    {k \in [1..NumPurchases -> DOMAIN PurchaseKinds] :
        \A i \in 1..(NumPurchases - 1) : k[i] <= k[i + 1]}

PathEdiValues == {<<>>, <<"e", "d", "i", "/">>}

Directories == {ResolvedPath(p) : p \in PathEdiValues}

Init ==
    /\ \E c \in Companies : \E k \in KindAssignments :
         purchases = [i \in 1..NumPurchases |->
            PurchaseRecord(i, PurchaseKinds[k[i]].use_edi, c.op,
                           PurchaseKinds[k[i]].op, c.ids,
                           PurchaseKinds[k[i]].warehouse, <<LineMinimal>>, FALSE)]
    /\ path_edi \in PathEdiValues
    /\ dirs \in SUBSET Directories
    /\ files = NoFiles
    /\ lastCall = NoCall
    /\ created = {}
    /\ rorder = NoPurchase
    /\ rout = NotRun

\* Purchase.confirm(purchases)
Confirm(ids) ==
    \E out \in {ConfirmEffect(ids, purchases, path_edi,
                              [dirs |-> dirs, files |-> files])} :
        /\ files' = out.fs.files
        /\ dirs' = out.fs.dirs
        /\ lastCall' = [purchases |-> ids, before |-> files, dirsBefore |-> dirs,
                        steps |-> out.steps, error |-> out.error,
                        called |-> TRUE]
        /\ created' = created \cup
               {out.steps[i].id : i \in {j \in DOMAIN out.steps :
                                            out.steps[j].error = NoError}}
        /\ UNCHANGED <<purchases, path_edi, rorder, rout>>

Next == \E ids \in DistinctSeqs(DOMAIN purchases, MaxBatch) : Confirm(ids)

Spec == Init /\ [][Next]_vars

\* the formatter and the address selection on their own
InitRender ==
    /\ rorder \in RenderInputs
    /\ rout = NotRun
    /\ purchases = <<>>
    /\ path_edi = <<>>
    /\ dirs = {}
    /\ files = NoFiles
    /\ lastCall = NoCall
    /\ created = {}

\* self._make_edi_order_content()
Render ==
    /\ rout = NotRun
    /\ rout' = [call |-> "make_edi_order_content",
                out |-> MakeEdiOrderContent(rorder)]
    /\ UNCHANGED <<purchases, path_edi, dirs, files, lastCall, created, rorder>>

\* self._get_party_address(customer, address_type)
GetAddress(address_type) ==
    /\ rout = NotRun
    /\ rout' = [call |-> "get_party_address", address_type |-> address_type,
                out |-> GetPartyAddress(rorder.company.party, address_type)]
    /\ UNCHANGED <<purchases, path_edi, dirs, files, lastCall, created, rorder>>

NextRender == Render \/ \E t \in {"invoice", "delivery"} : GetAddress(t)

SpecRender == InitRender /\ [][NextRender]_vars

\* ------------------------------------------------------------- properties
\* What the properties expect, written from the documents rather than with
\* the operators above.

\* the directory a configuration stands for
ExpectedPath ==
    IF path_edi = <<>> THEN <<"/", "t", "m", "p">>
    ELSE <<"/", "s", "r", "v", "/", "e", "d", "i">>

\* order_<id>.PLA in that directory
ExpectedFile(id) ==
    ExpectedPath \o <<"/", "o", "r", "d", "e", "r", "_", Digits[id + 1],
                      ".", "P", "L", "A">>

\* the file is as it was before the last confirm call
Untouched(fn) ==
    /\ fn \in DOMAIN files <=> fn \in DOMAIN lastCall.before
    /\ fn \in DOMAIN files => files[fn] = lastCall.before[fn]

Customer(p) == p.company.party

MissingOp(p) ==
    Customer(p).edi_operational_point = <<>> \/ p.party.edi_operational_point = <<>>

\* the party the missing-operational-point error names
Offender(p) ==
    IF Customer(p).edi_operational_point = <<>> THEN Customer(p) ELSE p.party

Truthy(flag) == flag.has /\ flag.val

RoleOf(a, role) == IF role = "invoice" THEN Truthy(a.invoice) ELSE Truthy(a.delivery)

\* first address with the role, else the first address
ExpectedAddress(addresses, role) ==
    IF \E i \in DOMAIN addresses : RoleOf(addresses[i], role)
    THEN addresses[CHOOSE i \in DOMAIN addresses :
                      /\ RoleOf(addresses[i], role)
                      /\ \A j \in 1..(i - 1) : ~RoleOf(addresses[j], role)]
    ELSE addresses[1]

HasWarehouseAddress(p) == p.warehouse # None /\ p.warehouse.address # None

HasDeliveryAddress(p) == HasWarehouseAddress(p) \/ Customer(p).addresses # <<>>

ExpectedDelivery(p) ==
    IF HasWarehouseAddress(p) THEN p.warehouse.address
    ELSE ExpectedAddress(Customer(p).addresses, "delivery")

\* the data checks of an order pass
DataComplete(p) ==
    /\ ~MissingOp(p)
    /\ Customer(p).addresses # <<>>
    /\ ExpectedDelivery(p).edi_ean # <<>>

Steps == lastCall.steps

FormatterCalled(st) == st.render.error.exc # "not called"

\* C1: an order with an empty operational point of the company or of the
\* supplier makes the formatter raise unfilled_edi_operational_point with the
\* name of the first such party while `lines` is still empty, and its
\* _create_edi_order_file call fails and leaves files and directories alone.
C1_MissingOperationalPoint ==
    \A j \in DOMAIN Steps :
        LET st == Steps[j]
            p  == purchases[st.id]
        IN  MissingOp(p) =>
              /\ st.error # NoError
              /\ FormatterCalled(st) =>
                    /\ st.error = st.render.error
                    /\ st.render.error.exc = "UserError"
                    /\ st.render.error.key = "unfilled_edi_operational_point"
                    /\ st.render.error.arg = Offender(p).rec_name
                    /\ st.render.lines = <<>>
              /\ Untouched(ExpectedFile(st.id))
              /\ dirs = lastCall.dirsBefore

C1_Witness ==
    \E j \in DOMAIN Steps :
        /\ purchases[Steps[j].id].party.edi_operational_point = <<>>
        /\ Customer(purchases[Steps[j].id]).edi_operational_point # <<>>
        /\ Steps[j].render.error.key = "unfilled_edi_operational_point"
        /\ Steps[j].render.error.arg = <<"P", "e", "n", "a">>
        /\ ExpectedPath \in dirs

\* C2 as stated: an order with both operational points whose delivery
\* address (the warehouse's address, else the company's delivery address or
\* first address) has no EDI EAN makes the formatter raise
\* unfilled_wh_edi_ean with that address's id, with no segment and no file.
C2_AsClaimed ==
    \A j \in DOMAIN Steps :
        LET st == Steps[j]
            p  == purchases[st.id]
        IN  (/\ ~MissingOp(p)
             /\ HasDeliveryAddress(p)
             /\ ExpectedDelivery(p).edi_ean = <<>>
             /\ FormatterCalled(st)) =>
              /\ st.render.error.exc = "UserError"
              /\ st.render.error.key = "unfilled_wh_edi_ean"
              /\ st.render.error.arg = <<Digits[ExpectedDelivery(p).id + 1]>>
              /\ st.render.lines = <<>>
              /\ Untouched(ExpectedFile(st.id))

\* C3: when the resolved directory (the configured one, /tmp when none is
\* configured) does not exist, _create_edi_order_file raises path_no_exists
\* with that path, and afterwards the directory and the file still do not
\* exist and nothing else has changed.
C3_MissingDirectory ==
    \A j \in DOMAIN Steps :
        ExpectedPath \notin lastCall.dirsBefore =>
            /\ Steps[j].error.exc = "UserError"
            /\ Steps[j].error.key = "path_no_exists"
            /\ Steps[j].error.arg = ExpectedPath
            /\ ExpectedPath \notin dirs
            /\ ExpectedFile(Steps[j].id) \notin DOMAIN files
            /\ dirs = lastCall.dirsBefore
            /\ files = lastCall.before

C3_Witness ==
    /\ Steps # <<>>
    /\ path_edi = <<>>
    /\ <<"/", "t", "m", "p">> \notin dirs
    /\ dirs # {}
    /\ Steps[1].error.key = "path_no_exists"
    /\ DataComplete(purchases[Steps[1].id])

\* C4: the files are exactly the files order_<id>.PLA of the purchases whose
\* _create_edi_order_file has completed in a confirm call; those purchases
\* use EDI and pass the checks; one file per such purchase, different files
\* for different ids; a purchase without use_edi in a call leaves its file
\* name alone.
C4_FilesOfConfirmedEdiOrders ==
    /\ \A fn \in DOMAIN files :
          \E id \in created :
              /\ fn = ExpectedFile(id)
              /\ purchases[id].use_edi
              /\ DataComplete(purchases[id])
              /\ ExpectedPath \in dirs
    /\ \A id \in created : ExpectedFile(id) \in DOMAIN files
    /\ Cardinality(DOMAIN files) = Cardinality(created)
    /\ \A id \in Range(lastCall.purchases) :
          ~purchases[id].use_edi =>
              /\ Untouched(ExpectedFile(id))
              /\ ExpectedFile(id) \notin DOMAIN files

C4_Witness ==
    /\ \E id \in Range(lastCall.purchases) : ~purchases[id].use_edi
    /\ \E j \in DOMAIN Steps :
          /\ Steps[j].error = NoError
          /\ ExpectedFile(Steps[j].id) \in DOMAIN lastCall.before
          /\ ExpectedFile(Steps[j].id) \in DOMAIN files
    /\ Cardinality(DOMAIN files) = 1

\* C8 as stated: the directory test comes after the formatter, so that an
\* order with missing data and a missing directory fails with the
\* missing-data error, and path_no_exists is raised only for orders the
\* formatter has rendered.
C8_AsClaimed ==
    \A j \in DOMAIN Steps :
        LET st == Steps[j]
            p  == purchases[st.id]
        IN  /\ (ExpectedPath \notin lastCall.dirsBefore /\ ~DataComplete(p)) =>
                   st.error.key \in {"unfilled_edi_operational_point",
                                     "unfilled_wh_edi_ean"}
            /\ st.error.key = "path_no_exists" => DataComplete(p)

\* C8 amended: the directory test comes first.  With a missing directory
\* the call raises path_no_exists whatever the order's data, before the
\* formatter is called; the missing-data errors are raised only when the
\* directory exists.
C8_DirectoryTestFirst ==
    \A j \in DOMAIN Steps :
        LET st == Steps[j]
        IN  /\ ExpectedPath \notin lastCall.dirsBefore =>
                   /\ st.error.key = "path_no_exists"
                   /\ ~FormatterCalled(st)
            /\ st.error.key \in {"unfilled_edi_operational_point",
                                 "unfilled_wh_edi_ean"} =>
                   /\ ExpectedPath \in lastCall.dirsBefore
                   /\ FormatterCalled(st)

C8_Witness ==
    \E j \in DOMAIN Steps :
        /\ MissingOp(purchases[Steps[j].id])
        /\ ExpectedPath \notin lastCall.dirsBefore
        /\ Steps[j].error.key = "path_no_exists"

\* the purchases of the last call that use EDI, in list order
EdiOf(ids) == SelectSeq(ids, LAMBDA id : purchases[id].use_edi)

\* C10: a confirm call creates the files of its EDI purchases in list order,
\* after all its purchases have been confirmed; when one creation fails the
\* call ends with that error, the files of the purchases before it are
\* there, and the files of that purchase and of the later ones are untouched.
C10_ConfirmStopsAtFirstFailure ==
    lastCall.called =>
        LET edi == EdiOf(lastCall.purchases)
            n   == Len(Steps)
        IN  /\ n <= Len(edi)
            /\ \A j \in 1..n : Steps[j].id = edi[j]
            /\ \A j \in 1..n : Range(lastCall.purchases) \subseteq Steps[j].confirmed
            /\ \A j \in 1..(n - 1) : Steps[j].error = NoError
            /\ lastCall.error = NoError =>
                  /\ n = Len(edi)
                  /\ \A j \in 1..n : Steps[j].error = NoError
            /\ lastCall.error # NoError =>
                  /\ n > 0
                  /\ Steps[n].error = lastCall.error
                  /\ \A k \in n..Len(edi) : Untouched(ExpectedFile(edi[k]))
            /\ \A j \in 1..n :
                  Steps[j].error = NoError =>
                      /\ ExpectedFile(Steps[j].id) \in DOMAIN files
                      /\ files[ExpectedFile(Steps[j].id)] # <<>>

C10_Witness ==
    /\ lastCall.error # NoError
    /\ Len(Steps) = 2
    /\ Steps[1].error = NoError
    /\ ExpectedFile(Steps[1].id) \notin DOMAIN lastCall.before
    /\ ExpectedFile(Steps[1].id) \in DOMAIN files
    /\ ExpectedFile(Steps[2].id) \notin DOMAIN files

\* the formatter has run on rorder
Rendered == rout.call = "make_edi_order_content"

Tags(content) == [i \in DOMAIN content |-> content[i].tag]

\* the segments of the content with the tag, in order
WithTag(content, tag) == SelectSeq(content, LAMBDA seg : seg.tag = tag)

NoDiscount(line) == line.discount = None \/ line.discount.coef = 0

MappedContact(cm) == cm.type \in {"phone", "mobile", "fax", "email"}

\* the order can be rendered: the data checks pass and every line has a
\* quantity
ValidOrder(p) ==
    /\ DataComplete(p)
    /\ \A i \in DOMAIN p.lines : p.lines[i].quantity # None

\* no comment, no special condition, no mapped contact mechanism of the
\* delivery party, one line without note, discount, tax or delivery date
MinimalOrder(p) ==
    /\ p.comment = <<>>
    /\ p.edi_special_condition = <<>>
    /\ \A i \in DOMAIN ExpectedDelivery(p).party.contact_mechanisms :
          ~MappedContact(ExpectedDelivery(p).party.contact_mechanisms[i])
    /\ Len(p.lines) = 1
    /\ p.lines[1].note = <<>>
    /\ NoDiscount(p.lines[1])
    /\ p.lines[1].taxes = <<>>
    /\ p.lines[1].delivery_date = None

\* C5: a minimal valid order renders as the header, ORD, DTM, NADMS, NADMR,
\* NADSU, NADBY, CTABY if the invoice address has a contact name, NADDP,
\* CTADP if the delivery address has one, NADIV, CUX, LIN, PIALIN, PIALIN,
\* IMDLIN, QTYLIN, MOALIN, PRILIN, PRILIN, MOARES, and nothing else.
C5_MinimalOrderSegments ==
    (Rendered /\ ValidOrder(rorder) /\ MinimalOrder(rorder)) =>
        /\ rout.out.error = NoError
        /\ Tags(rout.out.content) =
              <<"ORDERS_D_96A_UN_EAN008", "ORD", "DTM",
                "NADMS", "NADMR", "NADSU", "NADBY">>
              \o (IF ExpectedAddress(Customer(rorder).addresses, "invoice").name # <<>>
                  THEN <<"CTABY">> ELSE <<>>)
              \o <<"NADDP">>
              \o (IF ExpectedDelivery(rorder).name # <<>>
                  THEN <<"CTADP">> ELSE <<>>)
              \o <<"NADIV", "CUX", "LIN", "PIALIN", "PIALIN", "IMDLIN",
                   "QTYLIN", "MOALIN", "PRILIN", "PRILIN", "MOARES">>
        /\ rout.out.content[1].fields = <<>>
        /\ rout.out.content[Len(rout.out.content)].fields[1] =
              <<"1", "2", "3", ".", "4", "5", CR, LF>>

C5_Witness ==
    /\ Rendered /\ ValidOrder(rorder) /\ MinimalOrder(rorder)
    /\ ExpectedAddress(Customer(rorder).addresses, "invoice").name # <<>>
    /\ ExpectedDelivery(rorder).name = <<>>
    /\ Len(rout.out.content) = 20

\* C6: for a party with an address, _get_party_address returns the first
\* address whose role attribute exists and is true, and the first address
\* when there is none; the delivery party rendered (NADDP) is the
\* warehouse's address when the order has one, else that rule's result for
\* the delivery role on the company's addresses.
C6_AddressResolution ==
    /\ (rout.call = "get_party_address" /\ Customer(rorder).addresses # <<>>) =>
          /\ rout.out.error = NoError
          /\ rout.out.address =
                ExpectedAddress(Customer(rorder).addresses, rout.address_type)
    /\ (Rendered /\ rout.out.error = NoError) =>
          LET naddp == WithTag(rout.out.content, "NADDP")
          IN  /\ Len(naddp) = 1
              /\ naddp[1].fields[1] = ExpectedDelivery(rorder).edi_ean
              /\ naddp[1].fields[4] = ExpectedDelivery(rorder).street

C6_Witness ==
    /\ rout.call = "get_party_address"
    /\ rout.address_type = "invoice"
    /\ Len(Customer(rorder).addresses) = 2
    /\ ~RoleOf(Customer(rorder).addresses[1], "invoice")
    /\ rout.out.address = Customer(rorder).addresses[2]

\* C7 as stated: NADIV carries the fields of NADMS under the same limits;
\* its postal code has at most 10 characters and is the postal code of
\* NADMS and NADBY.
C7_AsClaimed ==
    (Rendered /\ rout.out.error = NoError) =>
        LET nadms == WithTag(rout.out.content, "NADMS")[1].fields
            nadby == WithTag(rout.out.content, "NADBY")[1].fields
            nadiv == WithTag(rout.out.content, "NADIV")[1].fields
        IN  /\ nadiv[1] = nadms[1]
            /\ \A k \in 2..6 : nadiv[k + 1] = nadms[k]
            /\ Len(nadiv[6]) <= 10
            /\ nadiv[6] = nadby[8]

\* C9 as stated: every line of a valid order gets a QTYLIN whose quantity is
\* the line's quantity cut toward zero; a quantity of None or zero gives 0
\* and rendering does not fail.
C9_AsClaimed ==
    (Rendered /\ DataComplete(rorder)) =>
        /\ rout.out.error = NoError
        /\ LET qty == WithTag(rout.out.content, "QTYLIN")
           IN  /\ Len(qty) = Len(rorder.lines)
               /\ \A i \in DOMAIN rorder.lines :
                     LET q == rorder.lines[i].quantity
                     IN  qty[i].fields[2] =
                            IF q = None \/ q.tenths = 0 THEN <<"0">>
                            ELSE IF q.tenths = 27 THEN <<"2">>
                            ELSE <<"-", "2">>

====
